---- MODULE Spec2Model ----
(***************************************************************************)
(* A model of the unit-aware value type of mdinardo/unittools:             *)
(*   src/units.py      UnitVar, Expression, CONVERSION_FUNCTIONS           *)
(*   src/unittools.py  UnitVar, CONVERTER_MAP                              *)
(*                                                                         *)
(* Both files are Python 2 (operator.div, __div__, exceptions module), so  *)
(* `/' on two ints floors.  A Python object is a record with a field k     *)
(* naming its type.  A float is an exact rational n/d: rounding of IEEE    *)
(* doubles is not modelled.  An exception leaving a call is the record     *)
(* [k |-> "raise", exc |-> <name>], returned in place of the result.       *)
(***************************************************************************)
EXTENDS Integers, Sequences, FiniteSets, TLC

\* Bare and tagged magnitudes range over the ints 0..MaxMag, 1000 and 0.5.
MaxMag == 2

------------------------------------------------------------------------------
(* Python values *)

None == "None"

Abs(i) == IF i < 0 THEN -i ELSE i

RECURSIVE GCD(_, _)
GCD(a, b) == IF b = 0 THEN a ELSE GCD(b, a % b)

MkInt(i) == [k |-> "int", n |-> i, d |-> 1]

\* the float n/d, d # 0, in lowest terms with a positive denominator
MkFloat(n, d) ==
    LET g == GCD(Abs(n), Abs(d))
        s == IF d < 0 THEN -1 ELSE 1
    IN  [k |-> "float", n |-> s * (n \div g), d |-> s * (d \div g)]

Str(s) == [k |-> "str", s |-> s]

Raise(e) == [k |-> "raise", exc |-> e]

NotImplemented == [k |-> "NotImplemented"]

IsNum(v) == v.k \in {"int", "float"}

IsRaise(v) == v.k = "raise"

\* floor(n / m) for m # 0 (Python 2 int division rounds toward -infinity)
FloorDiv(n, m) == IF m > 0 THEN n \div m ELSE (-n) \div (-m)

\* int.__add__ .. int.__div__ and float.__add__ .. float.__div__ on two numbers
NumOp(op, a, b) ==
    LET ints == a.k = "int" /\ b.k = "int"
        mk(n, d) == IF ints THEN MkInt(n \div d) ELSE MkFloat(n, d)
    IN  CASE op = "add" -> mk(a.n * b.d + b.n * a.d, a.d * b.d)
          [] op = "sub" -> mk(a.n * b.d - b.n * a.d, a.d * b.d)
          [] op = "mul" -> mk(a.n * b.n, a.d * b.d)
          [] op = "div" -> IF b.n = 0 THEN Raise("ZeroDivisionError")
                           ELSE IF ints THEN MkInt(FloorDiv(a.n, b.n))
                           ELSE MkFloat(a.n * b.d, a.d * b.n)

\* s * n: n copies of s, built by halving n
RECURSIVE Repeat(_, _)
Repeat(s, n) ==
    IF n <= 0 THEN ""
    ELSE LET h == Repeat(s, n \div 2)
         IN  IF n % 2 = 1 THEN h \o h \o s ELSE h \o h

\* operator.add/sub/mul/div on two objects neither of which is a UnitVar:
\* numbers, str (concatenation, repetition by an int) and Expression, which
\* defines no arithmetic at all.
PyArith(op, a, b) ==
    CASE IsNum(a) /\ IsNum(b) -> NumOp(op, a, b)
      [] a.k = "str" /\ b.k = "str" /\ op = "add" -> Str(a.s \o b.s)
      [] a.k = "str" /\ b.k = "int" /\ op = "mul" -> Str(Repeat(a.s, b.n))
      [] a.k = "int" /\ b.k = "str" /\ op = "mul" -> Str(Repeat(b.s, a.n))
      [] OTHER -> Raise("TypeError")

\* float(value) of a number
PyFloat(v) == MkFloat(v.n, v.d)

------------------------------------------------------------------------------
(* src/units.py: units and the conversion table *)

MIL == "mil"
IN_ == "in"
MM == "mm"
CM == "cm"
DEG_C == "degC"
DEG_F == "degF"
DEG_K == "degK"

LengthUnits == {MIL, IN_, MM, CM}
TemperatureUnits == {DEG_C, DEG_F, DEG_K}
Units == LengthUnits \cup TemperatureUnits

SameFamily(u, v) ==
    \/ u \in LengthUnits /\ v \in LengthUnits
    \/ u \in TemperatureUnits /\ v \in TemperatureUnits

\* A lambda of the table is the sequence of arithmetic steps of its body,
\* applied to x from left to right; each constant is the Python literal
\* (1000 and 10 are ints, every other one a float).
Step(op, c) == [op |-> op, c |-> c]

Scale(c) == <<Step("mul", c)>>

\* the float literal with the decimal digits n / d
Lit(n, d) == MkFloat(n, d)

\* the constant subexpression (1 / c)
Inv(c) == NumOp("div", MkInt(1), c)

\* lambda x: x
Identity == <<>>

RECURSIVE Apply(_, _)
Apply(fn, x) ==
    IF fn = <<>> \/ IsRaise(x) THEN x
    ELSE Apply(Tail(fn), PyArith(Head(fn).op, x, Head(fn).c))

CONVERSION_FUNCTIONS ==
    (MIL :> (IN_ :> Scale(Lit(1, 1000)) @@
             MM :> Scale(Lit(254, 10000)) @@
             CM :> Scale(Lit(254, 100000)) @@
             MIL :> Scale(Lit(1, 1)))) @@
    (IN_ :> (MIL :> Scale(MkInt(1000)) @@
             MM :> Scale(Lit(254, 10)) @@
             CM :> Scale(Lit(254, 100)) @@
             IN_ :> Scale(Lit(1, 1)))) @@
    (MM :> (MIL :> Scale(Inv(Lit(254, 10000))) @@
            IN_ :> Scale(Inv(Lit(254, 10))) @@
            CM :> Scale(Lit(1, 10)) @@
            MM :> Scale(Lit(1, 1)))) @@
    (CM :> (MIL :> Scale(Inv(Lit(254, 100000))) @@
            IN_ :> Scale(Inv(Lit(254, 100))) @@
            MM :> Scale(MkInt(10)) @@
            CM :> Scale(Lit(1, 1)))) @@
    (DEG_C :> (DEG_F :> <<Step("mul", NumOp("div", Lit(9, 1), Lit(5, 1))),
                          Step("add", Lit(32, 1))>> @@
               DEG_K :> <<Step("add", Lit(27315, 100))>>)) @@
    (DEG_F :> (DEG_C :> <<Step("sub", Lit(32, 1)),
                          Step("mul", NumOp("div", Lit(5, 1), Lit(9, 1)))>> @@
               DEG_K :> <<Step("sub", Lit(32, 1)),
                          Step("mul", NumOp("div", Lit(5, 1), Lit(9, 1))),
                          Step("add", Lit(27315, 100))>>)) @@
    (DEG_K :> (DEG_C :> <<Step("sub", Lit(27315, 100))>> @@
               DEG_F :> <<Step("sub", Lit(27315, 100)),
                          Step("mul", NumOp("div", Lit(9, 1), Lit(5, 1))),
                          Step("add", Lit(32, 1))>>))

\* CONVERSION_FUNCTIONS[a][b] without a KeyError
HasEntry(table, a, b) == a \in DOMAIN table /\ b \in DOMAIN table[a]

------------------------------------------------------------------------------
(* src/units.py: UnitVar and Expression *)

\* UnitVar.__init__(value, unit=None)
UnitVar(value, unit) ==
    IF value.k = "UnitVar"
    THEN [k |-> "UnitVar", value |-> value.value, unit |-> value.unit]
    ELSE [k |-> "UnitVar", value |-> value, unit |-> unit]

\* a Python list [operator func, value 1, value 2]; the operator function is
\* named by the string "add", "sub", "mul" or "div"
List(op, v1, v2) == [k |-> "list", items |-> <<op, v1, v2>>]

\* Expression.__init__(ast)
Expression(ast) == [k |-> "Expression", ast |-> ast]

\* What a method call hands back: the returned object (or the exception raised)
\* and the keys <<to, from_>> it indexed CONVERSION_FUNCTIONS with, in order.
Ret(v, lk) == [ret |-> v, lk |-> lk]

\* UnitVar._conversion_method(from_, to): ok is whether a converter (and not
\* None) is returned.
_conversion_method(from_, to) ==
    LET lookup(table) ==
            IF HasEntry(table, to, from_)
            THEN [ok |-> TRUE, fn |-> table[to][from_], lk |-> << <<to, from_>> >>]
            ELSE [ok |-> FALSE, fn |-> Identity, lk |-> << <<to, from_>> >>]
    IN  IF from_ = to THEN [ok |-> TRUE, fn |-> Identity, lk |-> <<>>]
        ELSE lookup(CONVERSION_FUNCTIONS)

\* What _coerce_with gives for the converter c it looked up first and the
\* lookup r it makes when c is None: the triple (value, converter(other.value),
\* unit), or IncompatibleUnits raised with its flag other_is_compatible.
Coerced(self, other, c, r) ==
    IF c.ok
    THEN [incompatible |-> FALSE, value |-> self.value,
          other_value |-> Apply(c.fn, other.value), unit |-> self.unit,
          lk |-> c.lk]
    ELSE [incompatible |-> TRUE, other_is_compatible |-> r.ok,
          lk |-> c.lk \o r.lk]

\* _coerce_with looking the converter up with its two units exchanged
_coerce_with_exchanged(self, other) ==
    Coerced(self, other, _conversion_method(other.unit, self.unit),
            _conversion_method(self.unit, other.unit))

\* UnitVar._coerce_with(other)
_coerce_with(self, other) ==
    Coerced(self, other, _conversion_method(self.unit, other.unit),
            _conversion_method(other.unit, self.unit))

\* the tail of __op__, __mul__ and __div__: UnitVar(<arithmetic>, unit), the
\* arithmetic's exception passing through
Wrap(v, unit) == IF IsRaise(v) THEN v ELSE UnitVar(v, unit)

\* `other = UnitVar(other)' unless other is a UnitVar (the head of __op__)
AsUnitVar(other) == IF other.k # "UnitVar" THEN UnitVar(other, None) ELSE other

\* __op__ building its Expression without regard to reverse
__op__ignoring_reverse(self, op, other0, reverse) ==
    LET body(other, c) ==
            IF c.incompatible
            THEN IF c.other_is_compatible THEN Ret(NotImplemented, c.lk)
                 ELSE Ret(Expression(List(op, self, other)), c.lk)
            ELSE IF IsRaise(c.other_value) THEN Ret(c.other_value, c.lk)
            ELSE Ret(Wrap(IF reverse THEN PyArith(op, c.other_value, c.value)
                          ELSE PyArith(op, c.value, c.other_value), c.unit), c.lk)
    IN  body(AsUnitVar(other0), _coerce_with(self, AsUnitVar(other0)))

\* UnitVar.__op__(op, other, reverse=False); c is what the try block's
\* _coerce_with gave
__op__(self, op, other0, reverse) ==
    LET body(other, c) ==
            IF c.incompatible
            THEN IF c.other_is_compatible THEN Ret(NotImplemented, c.lk)
                 ELSE IF reverse THEN Ret(Expression(List(op, other, self)), c.lk)
                 ELSE Ret(Expression(List(op, self, other)), c.lk)
            ELSE IF IsRaise(c.other_value) THEN Ret(c.other_value, c.lk)
            ELSE Ret(Wrap(IF reverse THEN PyArith(op, c.other_value, c.value)
                          ELSE PyArith(op, c.value, c.other_value), c.unit), c.lk)
    IN  body(AsUnitVar(other0), _coerce_with(self, AsUnitVar(other0)))

__add__(self, other) == __op__(self, "add", other, FALSE)

__sub__(self, other) == __op__(self, "sub", other, FALSE)

__radd__(self, other) == __op__(self, "add", other, TRUE)

__rsub__(self, other) == __op__(self, "sub", other, TRUE)

__mul__(self, other) ==
    IF other.k = "UnitVar"
    THEN IF other.unit = None
         THEN Ret(Wrap(PyArith("mul", self.value, other.value), self.unit), <<>>)
         ELSE Ret(Expression(List("mul", self, other)), <<>>)
    ELSE Ret(Wrap(PyArith("mul", self.value, other), self.unit), <<>>)

__div__(self, other) ==
    IF other.k = "UnitVar"
    THEN IF other.unit = None
         THEN Ret(Wrap(PyArith("div", self.value, other.value), self.unit), <<>>)
         ELSE Ret(Expression(List("div", self, other)), <<>>)
    ELSE Ret(Wrap(PyArith("div", self.value, other), self.unit), <<>>)

__rmul__(self, other) ==
    IF other.k # "UnitVar" \/ other.unit = None
    THEN __mul__(UnitVar(other, None), self)
    ELSE Ret(Expression(List("mul", other, self)), <<>>)

\* __rdiv__ building its Expression with the operands exchanged
__rdiv__exchanged(self, other) ==
    IF other.k # "UnitVar" \/ other.unit = None
    THEN __div__(UnitVar(other, None), self)
    ELSE Ret(Expression(List("div", self, other)), <<>>)

__rdiv__(self, other) ==
    IF other.k # "UnitVar" \/ other.unit = None
    THEN __div__(UnitVar(other, None), self)
    ELSE Ret(Expression(List("div", other, self)), <<>>)

------------------------------------------------------------------------------
(* src/units.py: rendering *)

FORMATTED_OPERATORS == [op \in {"div", "mul", "add", "sub"} |->
    CASE op = "div" -> "/" [] op = "mul" -> "*" [] op = "add" -> "+"
      [] op = "sub" -> "-"]

RECURSIVE FracDigits(_, _, _)
FracDigits(rem, d, left) ==
    IF rem = 0 \/ left = 0 THEN ""
    ELSE ToString((rem * 10) \div d) \o FracDigits((rem * 10) % d, d, left - 1)

\* str(x) of a number.  A float prints with its fraction, "3.0" when that is
\* zero; Python 2 rounds a float at 12 significant digits where this cuts the
\* expansion off, so the two agree on the floats whose expansion ends sooner.
NumStr(v) ==
    IF v.k = "int" THEN ToString(v.n)
    ELSE (IF v.n < 0 THEN "-" ELSE "") \o ToString(Abs(v.n) \div v.d) \o "."
         \o (IF Abs(v.n) % v.d = 0 THEN "0"
             ELSE FracDigits(Abs(v.n) % v.d, v.d, 12))

RECURSIVE PyStr(_)
RECURSIVE format(_)

\* UnitVar.__repr__
UnitVar__repr__(self) ==
    IF self.unit = None THEN PyStr(self.value)
    ELSE PyStr(self.value) \o " " \o self.unit

\* Expression.__repr__: format(self.ast)[1:-1]
Expression__repr__(self) ==
    LET s == format(self.ast) IN SubSeq(s, 2, Len(s) - 1)

\* str(x): of a number, of a str, or the __repr__ of the two classes, neither
\* of which defines __str__
PyStr(v) ==
    CASE IsNum(v) -> NumStr(v)
      [] v.k = "str" -> v.s
      [] v.k = "UnitVar" -> UnitVar__repr__(v)
      [] v.k = "Expression" -> Expression__repr__(v)

\* Expression.format(tree)
format(tree) ==
    IF tree.k # "list" THEN PyStr(tree)
    ELSE "(" \o format(tree.items[2]) \o " "
         \o FORMATTED_OPERATORS[tree.items[1]] \o " "
         \o format(tree.items[3]) \o ")"

------------------------------------------------------------------------------
(* src/unittools.py.  The file is read with its evident slips of syntax and
   naming resolved, since as written it does not compile: the colon missing
   after the condition of _transform (line 225), _is_number and _is_UnitVar
   called without their class (lines 176-196), and __unit in __init__ (line
   181), read as the parameter unit.  Its UnitVar is a record of the same
   shape as that of units.py, with a float value. *)

\* textually the table of units.py
CONVERTER_MAP == CONVERSION_FUNCTIONS

\* what a method that falls off its branches returns
NoneObject == [k |-> "NoneType"]

\* __get_converter(from_unit, to_unit)
__get_converter(from_unit, to_unit) ==
    IF from_unit \notin DOMAIN CONVERTER_MAP THEN Raise("ConverterMapException")
    ELSE IF to_unit \notin DOMAIN CONVERTER_MAP[from_unit]
         THEN Raise("ConverterMapException")
    ELSE [k |-> "function", fn |-> CONVERTER_MAP[from_unit][to_unit]]

\* UnitVar._transform(to_unit), which changes self and returns it
UT_transform(self, to_unit) ==
    IF to_unit # self.unit
    THEN LET converter == __get_converter(self.unit, to_unit)
         IN  IF IsRaise(converter) THEN converter
             ELSE [k |-> "UnitVar", value |-> Apply(converter.fn, self.value),
                   unit |-> to_unit]
    ELSE self

\* UnitVar.__init__(value, unit) on a number or a UnitVar
UT_UnitVar(value, unit) ==
    IF IsNum(value)
    THEN [k |-> "UnitVar", value |-> PyFloat(value), unit |-> unit]
    ELSE UT_transform([k |-> "UnitVar", value |-> value.value, unit |-> unit],
                      value.unit)

\* UnitVar._convert(to_unit)
UT_convert(self, to_unit) == UT_UnitVar(self, to_unit)

\* z.__value += self.__value, z.__value -= self.__value
UT_inplace(op, z, self) ==
    IF IsRaise(z) THEN z ELSE [z EXCEPT !.value = PyArith(op, z.value, self.value)]

UT__add__(self, y) ==
    IF IsNum(y) THEN UT_UnitVar(PyArith("add", self.value, y), self.unit)
    ELSE IF y.k = "UnitVar" THEN UT_inplace("add", UT_convert(y, self.unit), self)
    ELSE NoneObject

UT__radd__(self, x) ==
    IF IsNum(x) THEN UT_UnitVar(PyArith("add", x, self.value), self.unit)
    ELSE NoneObject

UT__sub__(self, y) ==
    IF IsNum(y) THEN UT_UnitVar(PyArith("sub", self.value, y), self.unit)
    ELSE IF y.k = "UnitVar" THEN UT_inplace("sub", UT_convert(y, self.unit), self)
    ELSE NoneObject

UT__rsub__(self, x) ==
    IF IsNum(x) THEN UT_UnitVar(PyArith("sub", x, self.value), self.unit)
    ELSE NoneObject

UT__mul__(self, y) ==
    IF IsNum(y) THEN UT_UnitVar(PyArith("mul", self.value, y), self.unit)
    ELSE NoneObject

UT__rmul__(self, x) ==
    IF IsNum(x) THEN UT_UnitVar(PyArith("mul", x, self.value), self.unit)
    ELSE NoneObject

UT__div__(self, y) ==
    IF IsNum(y)
    THEN IF y.n = 0 THEN Raise("ZeroDivisionError")
         ELSE UT_UnitVar(PyArith("div", self.value, y), self.unit)
    ELSE NoneObject

UT__rdiv__(self, x) ==
    IF IsNum(x)
    THEN IF x.n = 0 THEN Raise("ZeroDivisionError")
         ELSE LET q == PyArith("div", x, self.value)
              IN  IF IsRaise(q) THEN q ELSE UT_UnitVar(q, self.unit)
    ELSE NoneObject

------------------------------------------------------------------------------
(* The interpreter's evaluation of `x op y' *)

Forward(op, self, other) ==
    CASE op = "add" -> __add__(self, other)
      [] op = "sub" -> __sub__(self, other)
      [] op = "mul" -> __mul__(self, other)
      [] op = "div" -> __div__(self, other)

Reflected(op, self, other) ==
    CASE op = "add" -> __radd__(self, other)
      [] op = "sub" -> __rsub__(self, other)
      [] op = "mul" -> __rmul__(self, other)
      [] op = "div" -> __rdiv__(self, other)

\* NotImplemented from the one method tried is a TypeError: a second UnitVar
\* is of the same type, so its reflected method is not tried, and no built-in
\* type reflects onto a UnitVar.
OrTypeError(r) ==
    IF r.ret = NotImplemented THEN Ret(Raise("TypeError"), r.lk) ELSE r

\* `a op b' with the classes of units.py: a's method when a is a UnitVar, else
\* b's reflected method when b is one (int, float, str and Expression have no
\* method that accepts a UnitVar), else the built-in arithmetic
BinOp(op, a, b) ==
    IF a.k = "UnitVar" THEN OrTypeError(Forward(op, a, b))
    ELSE IF b.k = "UnitVar" THEN OrTypeError(Reflected(op, b, a))
    ELSE Ret(PyArith(op, a, b), <<>>)

UT_Forward(op, self, other) ==
    CASE op = "add" -> UT__add__(self, other)
      [] op = "sub" -> UT__sub__(self, other)
      [] op = "mul" -> UT__mul__(self, other)
      [] op = "div" -> UT__div__(self, other)

UT_Reflected(op, self, other) ==
    CASE op = "add" -> UT__radd__(self, other)
      [] op = "sub" -> UT__rsub__(self, other)
      [] op = "mul" -> UT__rmul__(self, other)
      [] op = "div" -> UT__rdiv__(self, other)

\* `a op b' with the UnitVar of unittools.py, one of a and b being one; its
\* methods return None, never NotImplemented
UT_BinOp(op, a, b) ==
    IF a.k = "UnitVar" THEN UT_Forward(op, a, b) ELSE UT_Reflected(op, b, a)

------------------------------------------------------------------------------
(* The state: two operands, the call last made on them and what it gave *)

VARIABLES x, y, call, res, lookups, text

vars == <<x, y, call, res, lookups, text>>

NumLits == {MkInt(i) : i \in 0..MaxMag} \cup {MkInt(1000), MkFloat(1, 2)}

\* cm(2), 2|cm, 2*cm: the factories of unit_var_creator
Tagged == {UnitVar(n, u) : n \in NumLits, u \in Units}

Unitless == {UnitVar(n, None) : n \in NumLits}

Strings == {Str("ab")}

\* (2 cm) * (3 cm) and (2 mil) + (3 degC)
SeedExpressions ==
    {__mul__(UnitVar(MkInt(2), CM), UnitVar(MkInt(3), CM)).ret,
     __add__(UnitVar(MkInt(2), MIL), UnitVar(MkInt(3), DEG_C)).ret}

Operands == NumLits \cup Tagged \cup Unitless \cup Strings \cup SeedExpressions

NoCall == [mod |-> "none", fn |-> "none", form |-> "none"]

NoResult == [k |-> "none"]

Init ==
    /\ x \in Operands
    /\ y \in Operands
    /\ call = NoCall
    /\ res = NoResult
    /\ lookups = <<>>
    /\ text = ""

\* `x op y' typed at the interpreter, units.py's names in scope
Operator(op) ==
    LET returns(r) == res' = r.ret /\ lookups' = r.lk
    IN  /\ x.k = "UnitVar" \/ y.k = "UnitVar"
        /\ call' = [mod |-> "units", fn |-> op, form |-> "operator"]
        /\ returns(BinOp(op, x, y))
        /\ text' = ""
        /\ UNCHANGED <<x, y>>

DoAdd == Operator("add")
DoSub == Operator("sub")
DoMul == Operator("mul")
DoDiv == Operator("div")

\* the reversed form called by name: y.__radd__(x) and the like, for `x op y'
Reversed(op) ==
    LET returns(r) == res' = r.ret /\ lookups' = r.lk
    IN  /\ y.k = "UnitVar"
        /\ call' = [mod |-> "units", fn |-> op, form |-> "reversed"]
        /\ returns(Reflected(op, y, x))
        /\ text' = ""
        /\ UNCHANGED <<x, y>>

CallRAdd == Reversed("add")
CallRSub == Reversed("sub")
CallRMul == Reversed("mul")
CallRDiv == Reversed("div")

\* repr(_) of the Expression an operator returned
Repr ==
    /\ call.mod = "units"
    /\ call.fn # "repr"
    /\ res.k = "Expression"
    /\ call' = [call EXCEPT !.fn = "repr"]
    /\ text' = Expression__repr__(res)
    /\ UNCHANGED <<x, y, res, lookups>>

\* an operand as unittools.py constructs it: a number, or UnitVar(value, unit)
UT_Operand(v) == v.k = "int" \/ v.k = "float"
                 \/ (v.k = "UnitVar" /\ v.unit # None /\ IsNum(v.value))

UT_Of(v) == IF v.k = "UnitVar" THEN UT_UnitVar(v.value, v.unit) ELSE v

\* `x op y' with unittools.py's UnitVar
UT_Operator(op) ==
    /\ UT_Operand(x) /\ UT_Operand(y)
    /\ x.k = "UnitVar" \/ y.k = "UnitVar"
    /\ call' = [mod |-> "unittools", fn |-> op, form |-> "operator"]
    /\ res' = UT_BinOp(op, UT_Of(x), UT_Of(y))
    /\ lookups' = <<>>
    /\ text' = ""
    /\ UNCHANGED <<x, y>>

UT_DoAdd == UT_Operator("add")
UT_DoSub == UT_Operator("sub")
UT_DoMul == UT_Operator("mul")
UT_DoDiv == UT_Operator("div")

Next ==
    \/ DoAdd \/ DoSub \/ DoMul \/ DoDiv
    \/ CallRAdd \/ CallRSub \/ CallRMul \/ CallRDiv
    \/ Repr
    \/ UT_DoAdd \/ UT_DoSub \/ UT_DoMul \/ UT_DoDiv

Spec == Init /\ [][Next]_vars

------------------------------------------------------------------------------
(* Properties.  x is the left operand as written and y the right one. *)

\* a Value that carries a unit
IsTagged(v) == v.k = "UnitVar" /\ v.unit # None

\* a Value that carries none
IsUnitless(v) == v.k = "UnitVar" /\ v.unit = None

\* two numbers equal as Python's == has them (2 == 2.0)
NumEq(a, b) == a.n * b.d = b.n * a.d

UnitsCall(fns) == call.mod = "units" /\ call.fn \in fns

\* C1: for + and -, two unit-tagged Values of different units of one family
\* give a Value in the left operand's unit whose magnitude is
\* op(a.magnitude, c(b.magnitude)), c being the table's conversion from b's unit
\* into a's; the operands are never exchanged.
C1_CrossUnitConverts ==
    (/\ UnitsCall({"add", "sub"}) /\ call.form = "operator"
     /\ IsTagged(x) /\ IsTagged(y)
     /\ x.unit # y.unit /\ SameFamily(x.unit, y.unit))
    => /\ res.k = "UnitVar"
       /\ res.unit = x.unit
       /\ res.value = PyArith(call.fn, x.value,
                              Apply(CONVERSION_FUNCTIONS[y.unit][x.unit], y.value))

\* (2 in) + (1000 mil) has given 3.0 in, and (1 cm) - (1 mm) is ready to give
\* 0.9 cm
C1_Witness ==
    /\ UnitsCall({"add"}) /\ call.form = "operator"
    /\ x = UnitVar(MkInt(2), IN_) /\ y = UnitVar(MkInt(1000), MIL)
    /\ res = UnitVar(MkFloat(3, 1), IN_)
    /\ __sub__(UnitVar(MkInt(1), CM), UnitVar(MkInt(1), MM)).ret
         = UnitVar(MkFloat(9, 10), CM)

\* C2 as claimed: for + and -, a bare number n and a unit-tagged Value v give,
\* in either order, a Value in v's unit with magnitude op(n, v.magnitude) for
\* `n op v' and op(v.magnitude, n) for `v op n'.
C2_UnitlessAbsorbed ==
    (UnitsCall({"add", "sub"}) /\ call.form = "operator")
    => /\ (IsNum(x) /\ IsTagged(y))
            => res = UnitVar(PyArith(call.fn, x, y.value), y.unit)
       /\ (IsTagged(x) /\ IsNum(y))
            => res = UnitVar(PyArith(call.fn, x.value, y), x.unit)

\* C3: for * and /, two unit-tagged Values, whatever their units, give the
\* Expression {op, a, b} in the direct form and in the reversed form alike, and
\* the conversion table is not consulted.
C3_MulDivSymbolic ==
    (UnitsCall({"mul", "div"}) /\ IsTagged(x) /\ IsTagged(y))
    => /\ res = Expression(List(call.fn, x, y))
       /\ lookups = <<>>

\* (2 cm).__rdiv__(1 cm), for (1 cm) / (2 cm), has given an Expression
C3_Witness ==
    /\ UnitsCall({"div"}) /\ call.form = "reversed"
    /\ x = UnitVar(MkInt(1), CM) /\ y = UnitVar(MkInt(2), CM)
    /\ res.k = "Expression"

\* C4 as claimed: for * and /, a bare number (or unitless Value) n and a
\* unit-tagged Value v resolve to a Value in v's unit, op(v.magnitude, n) for
\* `v op n' and op(n, v.magnitude) for `n op v', never to an Expression.
C4_MulDivByNumber ==
    LET num(v) == IF IsNum(v) THEN v ELSE v.value
        bare(v) == IsNum(v) \/ IsUnitless(v)
        value(m, unit) == (~IsRaise(m)) => res = UnitVar(m, unit)
    IN  (UnitsCall({"mul", "div"}) /\ call.form = "operator")
        => /\ (IsTagged(x) /\ bare(y))
                => value(PyArith(call.fn, x.value, num(y)), x.unit)
           /\ (bare(x) /\ IsTagged(y))
                => value(PyArith(call.fn, num(x), y.value), y.unit)

\* C5: for + and -, two unit-tagged Values of different families give the
\* Expression of op and the two operands, unconverted and in the order written,
\* in the direct and the reversed form; nothing is raised and NotImplemented
\* is not returned.
C5_CrossFamilySymbolic ==
    (/\ UnitsCall({"add", "sub"})
     /\ IsTagged(x) /\ IsTagged(y) /\ ~SameFamily(x.unit, y.unit))
    => res = Expression(List(call.fn, x, y))

\* (2 degC).__rsub__(2 cm), for (2 cm) - (2 degC), has given an Expression
C5_Witness ==
    /\ UnitsCall({"sub"}) /\ call.form = "reversed"
    /\ x = UnitVar(MkInt(2), CM) /\ y = UnitVar(MkInt(2), DEG_C)
    /\ res.k = "Expression"

\* C6 as claimed: a division whose divisor is zero-valued (a Value over the
\* bare number 0 or over a unitless Value of magnitude 0, or a bare number
\* over a unit-tagged Value of magnitude 0) raises the division-by-zero error.
C6_DivisionByZeroRaises ==
    LET zero(v) == IsNum(v) /\ v.n = 0
    IN  (/\ call.mod \in {"units", "unittools"} /\ call.fn = "div"
         /\ call.form = "operator"
         /\ \/ x.k = "UnitVar" /\ (zero(y) \/ (IsUnitless(y) /\ zero(y.value)))
            \/ IsNum(x) /\ IsTagged(y) /\ zero(y.value))
        => res = Raise("ZeroDivisionError")

\* the fully parenthesized infix string of an operand: an Expression, also one
\* an operator has wrapped in a unitless Value, within its own parentheses
RECURSIVE FullyParenthesized(_)
FullyParenthesized(v) ==
    CASE v.k = "Expression" ->
             "(" \o FullyParenthesized(v.ast.items[2]) \o " "
             \o FORMATTED_OPERATORS[v.ast.items[1]] \o " "
             \o FullyParenthesized(v.ast.items[3]) \o ")"
      [] v.k = "UnitVar" /\ v.value.k = "Expression" -> FullyParenthesized(v.value)
      [] OTHER -> PyStr(v)

\* C7 as claimed: an Expression {op, l, r} renders as
\* "(" + render(l) + " " + symbol(op) + " " + render(r) + ")", and an Expression
\* nested as an operand is enclosed in parentheses of its own.
C7_RendersParenthesized ==
    (call.mod = "units" /\ call.fn = "repr") => text = FullyParenthesized(res)

\* C8 as claimed: +, -, * and / on a Value and an operand that is neither a
\* number nor a Value (a str, an Expression) signal a type error.
C8_UnsupportedOperandRaises ==
    LET unsupported(v) == v.k \in {"str", "Expression"}
    IN  (/\ UnitsCall({"add", "sub", "mul", "div"}) /\ call.form = "operator"
         /\ \/ x.k = "UnitVar" /\ unsupported(y)
            \/ unsupported(x) /\ y.k = "UnitVar")
        => res = Raise("TypeError")

\* C9 as claimed: in unittools.py, for UnitVars A and B of length units,
\* A - B is a UnitVar in A's unit of value A.value - (B.value converted into
\* A's unit), and A + B likewise of value A.value + converted B.value.
C9_UnittoolsAddSub ==
    (/\ call.mod = "unittools" /\ call.fn \in {"add", "sub"}
     /\ IsTagged(x) /\ IsTagged(y)
     /\ x.unit \in LengthUnits /\ y.unit \in LengthUnits)
    => /\ res.k = "UnitVar"
       /\ res.unit = x.unit
       /\ NumEq(res.value,
                PyArith(call.fn, x.value,
                        Apply(CONVERTER_MAP[y.unit][x.unit], y.value)))

\* C10 as claimed: the conversion table holds an entry for every ordered pair
\* of units of one family, the pair (u, u) of each of the seven units included,
\* none for a pair across families, and each entry (u, u) maps every magnitude
\* to itself.
C10_TableComplete ==
    (IsTagged(x) /\ IsTagged(y))
    => /\ HasEntry(CONVERSION_FUNCTIONS, x.unit, y.unit)
            <=> SameFamily(x.unit, y.unit)
       /\ HasEntry(CONVERTER_MAP, x.unit, y.unit) <=> SameFamily(x.unit, y.unit)
       /\ HasEntry(CONVERSION_FUNCTIONS, x.unit, x.unit)
       /\ NumEq(Apply(CONVERSION_FUNCTIONS[x.unit][x.unit], x.value), x.value)

====
